---- MODULE Spec2Model ----
(***************************************************************************)
(* Stress / panic detection: the audio indicator detector, the mouse and   *)
(* keyboard activity detector, and the integrated voice + camera-motion    *)
(* detector.                                                               *)
(*                                                                         *)
(* Numbers.  The programs compute with floats; the model computes with     *)
(* exact fixed-point integers on grids where every division is exact:      *)
(*   pitch_mean, spectral_centroid_mean   Hz                               *)
(*   energy_mean                          hundredths  (0.7  is 70)         *)
(*   zcr_mean                             thousandths (0.1  is 100)        *)
(*   stress levels                        1/ONE       (1.0  is ONE)        *)
(*   elapsed time                         seconds                          *)
(*   rates                                a pair <<count, seconds>>        *)
(***************************************************************************)
EXTENDS Integers, Sequences, FiniteSets, TLC

VARIABLES
    fn, arg, ret, done,   \* a pure function, its argument, its result
    prog,                 \* which program's main is running
    pc,                   \* position of the orchestrator
    run,                  \* number of detection runs started
    stages,               \* session stages entered by the current run
    stream, q, audio_data,\* the input stream, its queue, the drained window
    detector,             \* the camera motion detector
    results,              \* IntegratedStressDetector.results
    frame,                \* local variables of the current run
    calls,                \* collaborator invocations of the current run
    motion_data,          \* the global motion_data of the activity tracker
    listeners,            \* the mouse and keyboard listeners
    inflight,             \* the callback each listener thread is executing
    setup,                \* command line and environment the program runs in
    exit_code             \* exit status of the process ("0", "1", "130"), "none"
                          \* while it runs

pureVars == <<fn, arg, ret, done>>

sessVars == <<prog, pc, run, stages, stream, q, audio_data, detector,
              results, frame, calls, motion_data, listeners, inflight,
              setup, exit_code>>

vars == <<fn, arg, ret, done, prog, pc, run, stages, stream, q, audio_data,
          detector, results, frame, calls, motion_data, listeners, inflight,
          setup, exit_code>>

\* the float 1.0 of min(1.0, ...) in fixed point; divisible by 50, 120, 700,
\* by len(stress_levels) = 4 and by the 10 of the weights 0.4 and 0.6
ONE == 168000

Max(a, b) == IF a >= b THEN a ELSE b
Min(a, b) == IF a <= b THEN a ELSE b

\* a tenth-based float literal such as 0.3, 0.5, 0.7, 0.9
Tenths(n) == (n * ONE) \div 10

----------------------------------------------------------------------------
(* Discrete audio detector: three copies of detect_stress.                 *)

\* outcome says how the call to extract_features ended: "features" (a
\* dict was returned), "none" (None was returned) or "raise"
\* mutant: the pitch cutoff counted at equality
detect_stress_pitch_ge(outcome, features) ==
    IF outcome = "raise" THEN FALSE
    ELSE IF outcome = "none" THEN FALSE
    ELSE LET i1 == IF features.pitch_mean >= 150 THEN 1 ELSE 0
             i2 == IF features.energy_mean > 70 THEN 1 ELSE 0
             i3 == IF features.zcr_mean > 100 THEN 1 ELSE 0
             i4 == IF features.spectral_centroid_mean > 2000 THEN 1 ELSE 0
             stress_indicators == i1 + i2 + i3 + i4
         IN  stress_indicators >= 2

detect_stress(outcome, features) ==
    IF outcome = "raise" THEN FALSE
    ELSE IF outcome = "none" THEN FALSE
    ELSE LET i1 == IF features.pitch_mean > 150 THEN 1 ELSE 0
             i2 == IF features.energy_mean > 70 THEN 1 ELSE 0
             i3 == IF features.zcr_mean > 100 THEN 1 ELSE 0
             i4 == IF features.spectral_centroid_mean > 2000 THEN 1 ELSE 0
             stress_indicators == i1 + i2 + i3 + i4
         IN  stress_indicators >= 2

detect_stress_hackathon(outcome, features) ==
    IF outcome = "raise" THEN FALSE
    ELSE IF outcome = "none" THEN FALSE
    ELSE LET i1 == IF features.pitch_mean > 150 THEN 1 ELSE 0
             i2 == IF features.energy_mean > 70 THEN 1 ELSE 0
             i3 == IF features.zcr_mean > 100 THEN 1 ELSE 0
             i4 == IF features.spectral_centroid_mean > 2000 THEN 1 ELSE 0
             stress_indicators == i1 + i2 + i3 + i4
         IN  stress_indicators >= 2

detect_stress_file(outcome, features) ==
    IF outcome = "raise" THEN FALSE
    ELSE IF outcome = "none" THEN FALSE
    ELSE LET i1 == IF features.pitch_mean > 150 THEN 1 ELSE 0
             i2 == IF features.energy_mean > 70 THEN 1 ELSE 0
             i3 == IF features.zcr_mean > 100 THEN 1 ELSE 0
             i4 == IF features.spectral_centroid_mean > 2000 THEN 1 ELSE 0
             stress_indicators == i1 + i2 + i3 + i4
         IN  stress_indicators >= 2

----------------------------------------------------------------------------
(* Mouse / keyboard activity detector.                                     *)

\* count / duration if duration > 0 else 0, kept as an exact fraction
Rate(count, duration) ==
    IF duration > 0 THEN <<count, duration>> ELSE <<0, 1>>

\* rate > threshold, for a fraction with a positive denominator
RateExceeds(rate, threshold) == rate[1] > threshold * rate[2]

\* mutant: the audio quorum of 2 used for the activity indicators
analyze_motion_data_quorum2(md) ==
    LET i1 == IF RateExceeds(md.mouse_movement_rate, 10) THEN 1 ELSE 0
        i2 == IF RateExceeds(md.mouse_click_rate, 2) THEN 1 ELSE 0
        i3 == IF RateExceeds(md.key_press_rate, 5) THEN 1 ELSE 0
        stress_indicators == i1 + i2 + i3
    IN  stress_indicators >= 2

analyze_motion_data(md) ==
    LET i1 == IF RateExceeds(md.mouse_movement_rate, 10) THEN 1 ELSE 0
        i2 == IF RateExceeds(md.mouse_click_rate, 2) THEN 1 ELSE 0
        i3 == IF RateExceeds(md.key_press_rate, 5) THEN 1 ELSE 0
        stress_indicators == i1 + i2 + i3
    IN  stress_indicators >= 1

----------------------------------------------------------------------------
(* Continuous policy: IntegratedStressDetector.detect_stress.              *)

pitch_stress(features) ==
    Min(ONE, Max(0, ((features.pitch_mean - 130) * ONE) \div 50))

energy_stress(features) ==
    Min(ONE, Max(0, ((features.energy_mean - 50) * ONE) \div 50))

\* mutant: the upper clamp min(1.0, ...) left out
zcr_stress_unclamped(features) ==
    Max(0, ((features.zcr_mean - 80) * ONE) \div 120)

zcr_stress(features) ==
    Min(ONE, Max(0, ((features.zcr_mean - 80) * ONE) \div 120))

spectral_stress(features) ==
    Min(ONE, Max(0, ((features.spectral_centroid_mean - 1800) * ONE) \div 700))

stress_levels(features) ==
    <<pitch_stress(features), energy_stress(features),
      zcr_stress(features), spectral_stress(features)>>

overall_stress(features) ==
    LET sl == stress_levels(features)
    IN  (sl[1] + sl[2] + sl[3] + sl[4]) \div Len(sl)

\* the band chain applied to the voice level
description_voice(level) ==
    IF level < Tenths(3) THEN "Calm"
    ELSE IF level < Tenths(5) THEN "Mild Stress"
    ELSE IF level < Tenths(7) THEN "Moderate Stress"
    ELSE IF level < Tenths(9) THEN "High Stress"
    ELSE "Panic"

\* mutant: the voice cutoff 0.3 counted at equality
IntegratedStressDetector_detect_stress_ge(outcome, features) ==
    IF outcome = "raise"
    THEN [is_stressed |-> FALSE, stress_level |-> 0,
          description |-> "Error in stress detection", stress_levels |-> <<>>]
    ELSE IF outcome = "none"
    THEN [is_stressed |-> FALSE, stress_level |-> 0,
          description |-> "No audio features detected", stress_levels |-> <<>>]
    ELSE [is_stressed |-> overall_stress(features) >= Tenths(3),
          stress_level |-> overall_stress(features),
          description |-> description_voice(overall_stress(features)),
          stress_levels |-> stress_levels(features)]

\* the result tuple (is_stressed, stress_level, description), with the local
\* list stress_levels as it stands when the method returns
IntegratedStressDetector_detect_stress(outcome, features) ==
    IF outcome = "raise"
    THEN [is_stressed |-> FALSE, stress_level |-> 0,
          description |-> "Error in stress detection", stress_levels |-> <<>>]
    ELSE IF outcome = "none"
    THEN [is_stressed |-> FALSE, stress_level |-> 0,
          description |-> "No audio features detected", stress_levels |-> <<>>]
    ELSE [is_stressed |-> overall_stress(features) > Tenths(3),
          stress_level |-> overall_stress(features),
          description |-> description_voice(overall_stress(features)),
          stress_levels |-> stress_levels(features)]

----------------------------------------------------------------------------
(* Weighted fusion and severity: analyze_combined_stress.                  *)

panic_threshold == Tenths(7)
high_stress_threshold == Tenths(5)

\* mutant: a modality at level 0 left out of the formula
combined_level_omit_missing(audio_stress_level, motion_stress_level) ==
    IF motion_stress_level = 0 THEN audio_stress_level
    ELSE IF audio_stress_level = 0 THEN motion_stress_level
    ELSE (audio_stress_level * 4 + motion_stress_level * 6) \div 10

\* mutant: the weights 0.4 and 0.6 left out
combined_level_unweighted(audio_stress_level, motion_stress_level) ==
    audio_stress_level + motion_stress_level

\* mutant: the two weights swapped
combined_level_swapped(audio_stress_level, motion_stress_level) ==
    (audio_stress_level * 6 + motion_stress_level * 4) \div 10

combined_level(audio_stress_level, motion_stress_level) ==
    (audio_stress_level * 4 + motion_stress_level * 6) \div 10

\* mutant: the first bound of the chain made inclusive
description_combined_le(level) ==
    IF level <= Tenths(3) THEN "Calm"
    ELSE IF level < Tenths(5) THEN "Mild Stress"
    ELSE IF level < Tenths(7) THEN "Moderate Stress"
    ELSE IF level < Tenths(9) THEN "High Stress"
    ELSE "Panic"

\* the band chain applied to the combined level
description_combined(level) ==
    IF level < Tenths(3) THEN "Calm"
    ELSE IF level < Tenths(5) THEN "Mild Stress"
    ELSE IF level < Tenths(7) THEN "Moderate Stress"
    ELSE IF level < Tenths(9) THEN "High Stress"
    ELSE "Panic"

\* mutant: panic decided from the band name
is_panic_from_band(level) == description_combined(level) = "Panic"

is_panic(level) == level >= panic_threshold

is_high_stress(level) == level >= high_stress_threshold

\* mutant: the voice level counts only when the voice was detected as stressed
analyze_combined_stress_flag_gated(audio_stress_detected, audio_stress_level, motion_stress_level) ==
    LET c == combined_level(IF audio_stress_detected THEN audio_stress_level ELSE 0,
                            motion_stress_level)
    IN  [is_panic |-> is_panic(c),
         is_high_stress |-> is_high_stress(c),
         combined_level |-> c,
         description |-> description_combined(c)]

analyze_combined_stress(audio_stress_detected, audio_stress_level, motion_stress_level) ==
    LET c == combined_level(audio_stress_level, motion_stress_level)
    IN  [is_panic |-> is_panic(c),
         is_high_stress |-> is_high_stress(c),
         combined_level |-> c,
         description |-> description_combined(c)]

----------------------------------------------------------------------------
(* Argument grids of the pure functions: every cutoff, its neighbours and  *)
(* the documented scenarios.                                               *)

DiscreteFeatures ==
    [pitch_mean: {100, 150, 151, 200},
     energy_mean: {30, 70, 71, 90},
     zcr_mean: {50, 100, 101, 200},
     spectral_centroid_mean: {1000, 2000, 2001, 3000}]

ContinuousFeatures ==
    [pitch_mean: {100, 130, 131, 179, 180, 200},
     energy_mean: {30, 50, 51, 60, 80, 90, 99, 100, 120},
     zcr_mean: {50, 80, 81, 199, 200, 250},
     spectral_centroid_mean: {1000, 1800, 1801, 2499, 2500, 3000}]

\* levels 0.00, 0.05, ..., 1.00
Levels == {k * (ONE \div 20) : k \in 0..20}

ActivitySamples ==
    [mouse_movements: {0, 60, 100, 101},
     mouse_clicks: {0, 5, 20, 21},
     key_presses: {0, 10, 50, 51},
     duration: {0, 5, 10}]

NoFeatures ==
    [pitch_mean |-> 0, energy_mean |-> 0, zcr_mean |-> 0,
     spectral_centroid_mean |-> 0]

\* the rates stop_motion_tracking adds to motion_data
WithRates(md, duration) ==
    [mouse_movements |-> md.mouse_movements,
     mouse_clicks |-> md.mouse_clicks,
     key_presses |-> md.key_presses,
     mouse_movement_rate |-> Rate(md.mouse_movements, duration),
     mouse_click_rate |-> Rate(md.mouse_clicks, duration),
     key_press_rate |-> Rate(md.key_presses, duration)]

DiscreteCopies == {"detect_stress", "detect_stress_hackathon", "detect_stress_file"}

FeatureArgs(F) ==
    {[outcome |-> "features", features |-> f] : f \in F}
        \cup {[outcome |-> o, features |-> NoFeatures] : o \in {"none", "raise"}}

----------------------------------------------------------------------------
(* Collaborators shared by the two orchestrators.                          *)

MaxChunks == 2
MaxFrames == 2

\* Python None, and the location records the resolver can return: the
\* geocoder's "lat,lng", or the IP fallback whose 'loc' defaults to 'N/A'
None == [kind |-> "None", loc |-> ""]
LocationRecords ==
    {[kind |-> "record", loc |-> "12.97,77.59"],
     [kind |-> "record", loc |-> "N/A"]}

get_location_by_geocoder == LocationRecords \cup {None}

Truthy(location_data) == location_data.kind # "None"

\* 'loc'.split(',') unpacks into lat, lng only for a "lat,lng" pair
open_google_maps(location_data) ==
    IF ~Truthy(location_data) THEN FALSE
    ELSE IF location_data.loc = "" THEN FALSE
    ELSE IF location_data.loc = "N/A" THEN FALSE
    ELSE TRUE

\* every value open_google_maps can be given: None, a dict without a 'loc'
\* key, a dict with an empty 'loc', with 'N/A', and a well-formed one
LocationValues ==
    LocationRecords
        \cup {None,
              [kind |-> "record_without_loc", loc |-> ""],
              [kind |-> "record", loc |-> ""]}

\* what webbrowser.open does: it returns True, returns False, or raises
WebbrowserOutcomes == {"opened", "not_opened", "raise"}

\* open_google_maps as a call: whether an exception leaves the function and
\* the value it returns otherwise.  location_data['loc'] is first read
\* outside the try block; the value of webbrowser.open is not looked at
open_google_maps_call(location_data, webbrowser_open) ==
    IF ~Truthy(location_data) THEN [raised |-> FALSE, value |-> FALSE]
    ELSE IF location_data.kind = "record_without_loc"
    THEN [raised |-> TRUE, value |-> FALSE]
    ELSE IF location_data.loc = "" THEN [raised |-> FALSE, value |-> FALSE]
    ELSE IF location_data.loc = "N/A" THEN [raised |-> FALSE, value |-> FALSE]
    ELSE IF webbrowser_open = "raise" THEN [raised |-> FALSE, value |-> FALSE]
    ELSE [raised |-> FALSE, value |-> TRUE]

----------------------------------------------------------------------------
(* IntegratedStressDetector: __init__, run_detection, main.                *)

\* record_audio(self, duration=5, ...), and record_audio(duration=5) in main
record_audio_duration == 5

\* --duration as argparse accepts it (type=int, default 5), whether an input
\* device exists, and whether check_dependencies() finds its modules
Setups ==
    [duration: {-1, 0, 5, 10}, device: {"ok", "missing"}, dependencies: BOOLEAN]

\* the mouse / keyboard program takes no arguments
SetupsMousekbd ==
    {su \in Setups : su.duration = record_audio_duration}

\* stress_threshold handed to CameraMotionDetector
motion_detector_stress_threshold == Tenths(5)

InitResults ==
    [audio_stress_detected |-> FALSE,
     motion_stress_detected |-> FALSE,
     audio_stress_level |-> 0,
     motion_stress_level |-> 0,
     combined_stress_level |-> 0,
     panic_detected |-> FALSE,
     location_data |-> None]

\* locals of run_detection and _handle_stress_detection before assignment,
\* with what the run has normalized and fused so far, the events delivered
\* to the listeners in this window, the counts read when the rates were
\* computed, whether the user interrupted the run, the number of chunks the
\* stream callback produced, and the seconds the two windows lasted
InitFrame ==
    [audio_stress_detected |-> FALSE,
     audio_stress_level |-> 0,
     motion_stress_level |-> 0,
     motion_stress_detected |-> FALSE,
     combined_level |-> 0,
     is_panic |-> FALSE,
     is_high_stress |-> FALSE,
     description |-> "",
     stress_detected |-> FALSE,
     location_data |-> None,
     maps_opened |-> FALSE,
     normalized |-> {},
     fused |-> FALSE,
     delivered |-> [mouse_movements |-> 0, mouse_clicks |-> 0, key_presses |-> 0],
     sample |-> [mouse_movements |-> 0, mouse_clicks |-> 0, key_presses |-> 0],
     aborted |-> FALSE,
     produced |-> 0,
     audio_window |-> 0,
     motion_window |-> 0]

NoCalls == [resolver |-> 0, maps |-> 0]

\* mutant: the method resolves and returns the features of the window
self_extract_features_resolved == "features"

\* self.extract_features is not defined by the class: the call raises
\* AttributeError inside the try block of detect_stress
self_extract_features == "raise"

\* the features extraction would give for the recorded window: a calm
\* voice, and one with every descriptor above baseline + range
SessionVoiceFeatures ==
    {[pitch_mean |-> 100, energy_mean |-> 30, zcr_mean |-> 50,
      spectral_centroid_mean |-> 1000],
     [pitch_mean |-> 200, energy_mean |-> 120, zcr_mean |-> 250,
      spectral_centroid_mean |-> 3000]}

\* the level CameraMotionDetector.analyze_stress returns
MotionLevels == Levels

\* mutant: the final else branch lost, every run is handled as stressed
ActionBranch_no_else(panic, high) ==
    IF panic THEN "panic" ELSE "high"

\* which branch of "if is_panic / elif is_high_stress / else" is taken
ActionBranch(panic, high) ==
    IF panic THEN "panic" ELSE IF high THEN "high" ELSE "settled"

IntegratedOnly ==
    UNCHANGED <<fn, arg, ret, done, prog, motion_data, listeners, inflight, setup,
               exit_code>>

\* main: if not check_dependencies(): pip install, and sys.exit(1) when
\* that fails; otherwise the detector is constructed
main_check_dependencies ==
    /\ prog = "integrated"
    /\ pc = "main"
    /\ \E installed \in BOOLEAN :
          IF setup.dependencies \/ installed
          THEN pc' = "idle" /\ exit_code' = exit_code
          ELSE pc' = "done" /\ exit_code' = "1"
    /\ UNCHANGED <<fn, arg, ret, done, prog, run, stages, stream, q, audio_data,
                   detector, results, frame, calls, motion_data, listeners,
                   inflight, setup>>

\* main calls run_detection, a second time when the user answers 'y'
run_detection_start ==
    /\ prog = "integrated"
    /\ \/ pc = "idle" /\ run = 0
       \/ pc = "returned" /\ run = 1
    /\ run' = run + 1
    /\ detector' = [state |-> "detecting", frames |-> 0]
    /\ stages' = <<"CapturingWindows">>
    /\ frame' = InitFrame
    /\ calls' = NoCalls
    /\ pc' = "record_audio"
    /\ UNCHANGED <<stream, q, audio_data, results>>
    /\ IntegratedOnly

\* the detection thread of the camera motion detector sees one more frame
motion_detector_frame ==
    /\ prog = "integrated"
    /\ detector.state = "detecting"
    /\ detector.frames < MaxFrames
    /\ detector' = [detector EXCEPT !.frames = @ + 1]
    /\ UNCHANGED <<pc, run, stages, stream, q, audio_data, results, frame, calls>>
    /\ IntegratedOnly

\* record_audio: q = queue.Queue(); with sd.InputStream(...), which raises
\* PortAudioError when there is no input device
record_audio_open ==
    /\ prog = "integrated"
    /\ pc = "record_audio"
    /\ IF setup.device = "missing"
       THEN stream' = stream /\ pc' = "raised"
       ELSE stream' = "open" /\ pc' = "recording"
    /\ q' = <<>>
    /\ audio_data' = <<>>
    /\ UNCHANGED <<run, stages, detector, results, frame, calls>>
    /\ IntegratedOnly

\* the stream callback: q.put(indata.copy())
record_audio_callback ==
    /\ prog = "integrated"
    /\ stream = "open"
    /\ Len(q) < MaxChunks
    /\ q' = Append(q, frame.produced + 1)
    /\ frame' = [frame EXCEPT !.produced = @ + 1]
    /\ UNCHANGED <<pc, run, stages, stream, audio_data, detector, results, calls>>
    /\ IntegratedOnly

\* sd.sleep(int(duration * 1000)) returns and the with block closes the
\* stream; run_detection calls record_audio() without a duration
record_audio_close ==
    /\ prog = "integrated"
    /\ pc = "recording"
    /\ stream' = "closed"
    /\ frame' = [frame EXCEPT !.audio_window = record_audio_duration]
    /\ pc' = "drain"
    /\ UNCHANGED <<run, stages, q, audio_data, detector, results, calls>>
    /\ IntegratedOnly

\* mutant: the drain loop stops one chunk early
record_audio_drain_drop_last ==
    /\ prog = "integrated"
    /\ pc = "drain"
    /\ audio_data' = IF q = <<>> THEN q ELSE SubSeq(q, 1, Len(q) - 1)
    /\ q' = IF q = <<>> THEN q ELSE <<q[Len(q)]>>
    /\ pc' = IF q = <<>> THEN "raised" ELSE "save_audio"
    /\ UNCHANGED <<run, stages, stream, detector, results, frame, calls>>
    /\ IntegratedOnly

\* the queue is drained and concatenated; np.concatenate raises ValueError
\* on an empty list, which leaves run_detection
record_audio_drain ==
    /\ prog = "integrated"
    /\ pc = "drain"
    /\ audio_data' = q
    /\ q' = <<>>
    /\ pc' = IF q = <<>> THEN "raised" ELSE "save_audio"
    /\ UNCHANGED <<run, stages, stream, detector, results, frame, calls>>
    /\ IntegratedOnly

\* mutant: the motion window is analysed without stop_detection
run_detection_save_audio_no_stop ==
    /\ prog = "integrated"
    /\ pc = "save_audio"
    /\ pc' = "detect_stress"
    /\ UNCHANGED <<run, stages, stream, q, audio_data, detector, results, frame, calls>>
    /\ IntegratedOnly

\* temp_file = save_audio(...); time.sleep(self.motion_duration), which
\* raises ValueError for a negative length
run_detection_save_audio ==
    /\ prog = "integrated"
    /\ pc = "save_audio"
    /\ pc' = IF setup.duration < 0 THEN "raised" ELSE "stop_detection"
    /\ UNCHANGED <<run, stages, stream, q, audio_data, detector, results, frame, calls>>
    /\ IntegratedOnly

\* motion_data = self.motion_detector.stop_detection()
run_detection_stop_detection ==
    /\ prog = "integrated"
    /\ pc = "stop_detection"
    /\ detector' = [detector EXCEPT !.state = "stopped"]
    /\ frame' = [frame EXCEPT !.motion_window = frame.audio_window + setup.duration]
    /\ pc' = "detect_stress"
    /\ UNCHANGED <<run, stages, stream, q, audio_data, results, calls>>
    /\ IntegratedOnly

\* mutant: fusion follows the voice analysis, the motion analysis is skipped
run_detection_detect_stress_skip_motion ==
    /\ prog = "integrated"
    /\ pc = "detect_stress"
    /\ \E features \in SessionVoiceFeatures :
          LET r == IntegratedStressDetector_detect_stress(self_extract_features, features)
          IN  frame' = [frame EXCEPT !.audio_stress_detected = r.is_stressed,
                                     !.audio_stress_level = r.stress_level,
                                     !.normalized = @ \cup {"voice"}]
    /\ stages' = Append(stages, "Normalizing")
    /\ pc' = "fuse"
    /\ UNCHANGED <<run, stream, q, audio_data, detector, results, calls>>
    /\ IntegratedOnly

\* audio_stress_detected, audio_stress_level, audio_description =
\*     self.detect_stress(audio_data, sample_rate)
run_detection_detect_stress ==
    /\ prog = "integrated"
    /\ pc = "detect_stress"
    /\ \E features \in SessionVoiceFeatures :
          LET r == IntegratedStressDetector_detect_stress(self_extract_features, features)
          IN  frame' = [frame EXCEPT !.audio_stress_detected = r.is_stressed,
                                     !.audio_stress_level = r.stress_level,
                                     !.normalized = @ \cup {"voice"}]
    /\ stages' = Append(stages, "Normalizing")
    /\ pc' = "analyze_stress"
    /\ UNCHANGED <<run, stream, q, audio_data, detector, results, calls>>
    /\ IntegratedOnly

\* motion_stress_level, motion_description = self.motion_detector.analyze_stress()
run_detection_analyze_stress ==
    /\ prog = "integrated"
    /\ pc = "analyze_stress"
    /\ \E level \in MotionLevels :
          frame' = [frame EXCEPT !.motion_stress_level = level,
                                 !.normalized = @ \cup {"motion"}]
    /\ pc' = "fuse"
    /\ UNCHANGED <<run, stages, stream, q, audio_data, detector, results, calls>>
    /\ IntegratedOnly

\* analyze_combined_stress: the weighted average
run_detection_fuse ==
    /\ prog = "integrated"
    /\ pc = "fuse"
    /\ frame' = [frame EXCEPT
          !.combined_level = analyze_combined_stress(frame.audio_stress_detected,
                                 frame.audio_stress_level,
                                 frame.motion_stress_level).combined_level,
          !.fused = TRUE]
    /\ stages' = Append(stages, "Fusing")
    /\ pc' = "classify"
    /\ UNCHANGED <<run, stream, q, audio_data, detector, results, calls>>
    /\ IntegratedOnly

\* analyze_combined_stress: the two decisions and the band
run_detection_classify ==
    /\ prog = "integrated"
    /\ pc = "classify"
    /\ LET r == analyze_combined_stress(frame.audio_stress_detected,
                                        frame.audio_stress_level,
                                        frame.motion_stress_level)
       IN  frame' = [frame EXCEPT !.is_panic = r.is_panic,
                                  !.is_high_stress = r.is_high_stress,
                                  !.description = r.description]
    /\ stages' = Append(stages, "Classifying")
    /\ pc' = "store"
    /\ UNCHANGED <<run, stream, q, audio_data, detector, results, calls>>
    /\ IntegratedOnly

\* mutant: the motion cutoff counted at equality
run_detection_store_ge ==
    /\ prog = "integrated"
    /\ pc = "store"
    /\ results' =
          [results EXCEPT
              !.audio_stress_detected = frame.audio_stress_detected,
              !.motion_stress_detected =
                  frame.motion_stress_level >= motion_detector_stress_threshold,
              !.audio_stress_level = frame.audio_stress_level,
              !.motion_stress_level = frame.motion_stress_level,
              !.combined_stress_level = frame.combined_level,
              !.panic_detected = frame.is_panic]
    /\ pc' = "decide"
    /\ UNCHANGED <<run, stages, stream, q, audio_data, detector, frame, calls>>
    /\ IntegratedOnly

\* self.results.update({...}): six of the seven fields
run_detection_store ==
    /\ prog = "integrated"
    /\ pc = "store"
    /\ results' =
          [results EXCEPT
              !.audio_stress_detected = frame.audio_stress_detected,
              !.motion_stress_detected =
                  frame.motion_stress_level > motion_detector_stress_threshold,
              !.audio_stress_level = frame.audio_stress_level,
              !.motion_stress_level = frame.motion_stress_level,
              !.combined_stress_level = frame.combined_level,
              !.panic_detected = frame.is_panic]
    /\ pc' = "decide"
    /\ UNCHANGED <<run, stages, stream, q, audio_data, detector, frame, calls>>
    /\ IntegratedOnly

\* if is_panic: ... elif is_high_stress: ... else: ...
run_detection_decide ==
    /\ prog = "integrated"
    /\ pc = "decide"
    /\ LET b == ActionBranch(frame.is_panic, frame.is_high_stress)
       IN  IF b = "settled"
           THEN /\ stages' = stages \o <<"ActionDecision", "Settled">>
                /\ pc' = "cleanup"
           ELSE /\ stages' = stages \o <<"ActionDecision", "Triggered">>
                /\ pc' = "handle"
    /\ UNCHANGED <<run, stream, q, audio_data, detector, results, frame, calls>>
    /\ IntegratedOnly

\* mutant: the map opener is called whatever the resolver returned
handle_stress_detection_locate_always_open ==
    /\ prog = "integrated"
    /\ pc = "handle"
    /\ \E location_data \in get_location_by_geocoder :
          /\ frame' = [frame EXCEPT !.location_data = location_data]
          /\ results' = [results EXCEPT !.location_data = location_data]
          /\ pc' = "open_maps"
    /\ calls' = [calls EXCEPT !.resolver = @ + 1]
    /\ UNCHANGED <<run, stages, stream, q, audio_data, detector>>
    /\ IntegratedOnly

\* _handle_stress_detection: the resolver, stored into the results
handle_stress_detection_locate ==
    /\ prog = "integrated"
    /\ pc = "handle"
    /\ \E location_data \in get_location_by_geocoder :
          /\ frame' = [frame EXCEPT !.location_data = location_data]
          /\ results' = [results EXCEPT !.location_data = location_data]
          /\ pc' = IF Truthy(location_data) THEN "open_maps" ELSE "cleanup"
    /\ calls' = [calls EXCEPT !.resolver = @ + 1]
    /\ UNCHANGED <<run, stages, stream, q, audio_data, detector>>
    /\ IntegratedOnly

\* mutant: a failed map opener resets the stored assessment
handle_stress_detection_open_maps_rollback ==
    /\ prog = "integrated"
    /\ pc = "open_maps"
    /\ calls' = [calls EXCEPT !.maps = @ + 1]
    /\ frame' = [frame EXCEPT !.maps_opened = open_google_maps(frame.location_data)]
    /\ results' = IF open_google_maps(frame.location_data)
                   THEN results
                   ELSE [InitResults EXCEPT !.location_data = results.location_data]
    /\ pc' = "cleanup"
    /\ UNCHANGED <<run, stages, stream, q, audio_data, detector>>
    /\ IntegratedOnly

\* _handle_stress_detection: if open_google_maps(location_data): ...
handle_stress_detection_open_maps ==
    /\ prog = "integrated"
    /\ pc = "open_maps"
    /\ calls' = [calls EXCEPT !.maps = @ + 1]
    /\ frame' = [frame EXCEPT !.maps_opened = open_google_maps(frame.location_data)]
    /\ pc' = "cleanup"
    /\ UNCHANGED <<run, stages, stream, q, audio_data, detector, results>>
    /\ IntegratedOnly

\* the temporary recording is removed and run_detection returns self.results
run_detection_return ==
    /\ prog = "integrated"
    /\ pc = "cleanup"
    /\ stages' = Append(stages, "Idle")
    /\ pc' = "returned"
    /\ UNCHANGED <<run, stream, q, audio_data, detector, results, frame, calls>>
    /\ IntegratedOnly

\* the user interrupts while the captures are in progress: the with block
\* of record_audio closes the stream on the way out, and KeyboardInterrupt
\* passes "except Exception" in main
run_detection_KeyboardInterrupt ==
    /\ prog = "integrated"
    /\ pc \in {"record_audio", "recording", "drain", "save_audio"}
    /\ stream' = IF stream = "open" THEN "closed" ELSE stream
    /\ frame' = [frame EXCEPT !.aborted = TRUE]
    /\ pc' = "interrupted"
    /\ UNCHANGED <<run, stages, q, audio_data, detector, results, calls>>
    /\ IntegratedOnly

\* main: the last run returned (or the user declined another one), an
\* exception was caught, or an interrupt passes; finally: detector.release()
main_release ==
    /\ prog = "integrated"
    /\ pc \in {"returned", "raised", "interrupted"}
    /\ detector' = [detector EXCEPT !.state = "released"]
    /\ pc' = "exit"
    /\ UNCHANGED <<run, stages, stream, q, audio_data, results, frame, calls>>
    /\ IntegratedOnly

\* main returns after the finally block and the process exits with 0; an
\* interrupt is not caught, the interpreter ends with the status of SIGINT
main_exit ==
    /\ prog = "integrated"
    /\ pc = "exit"
    /\ exit_code' = IF frame.aborted THEN "130" ELSE "0"
    /\ pc' = "done"
    /\ UNCHANGED <<fn, arg, ret, done, prog, run, stages, stream, q, audio_data,
                   detector, results, frame, calls, motion_data, listeners,
                   inflight, setup>>

IntegratedNext ==
    \/ main_check_dependencies
    \/ run_detection_start
    \/ motion_detector_frame
    \/ record_audio_open
    \/ record_audio_callback
    \/ record_audio_close
    \/ record_audio_drain
    \/ run_detection_save_audio
    \/ run_detection_stop_detection
    \/ run_detection_detect_stress
    \/ run_detection_analyze_stress
    \/ run_detection_fuse
    \/ run_detection_classify
    \/ run_detection_store
    \/ run_detection_decide
    \/ handle_stress_detection_locate
    \/ handle_stress_detection_open_maps
    \/ run_detection_return
    \/ run_detection_KeyboardInterrupt
    \/ main_release
    \/ main_exit

----------------------------------------------------------------------------
(* Mouse / keyboard + microphone detector: motion tracking and main.       *)

MaxWindows == 2
MaxMoves == 2
MaxClicks == 11
MaxKeys == 2

\* end_time - start_time in seconds: record_audio(duration=5) lies between
Elapsed == {5, 6}

\* the module-level motion_data, and the one start_motion_tracking installs
NewMotionData(start_time) ==
    [mouse_movements |-> 0,
     mouse_clicks |-> 0,
     key_presses |-> 0,
     start_time |-> start_time,
     end_time |-> FALSE,
     duration |-> 0,
     has_rates |-> FALSE,
     mouse_movement_rate |-> <<0, 1>>,
     mouse_click_rate |-> <<0, 1>>,
     key_press_rate |-> <<0, 1>>]

\* what extract_features can hand to detect_stress in a session
SessionFeatureArgs ==
    FeatureArgs({[pitch_mean |-> 200, energy_mean |-> 30, zcr_mean |-> 50,
                  spectral_centroid_mean |-> 1000],
                 [pitch_mean |-> 200, energy_mean |-> 90, zcr_mean |-> 200,
                  spectral_centroid_mean |-> 3000]})

ActivityOnly ==
    UNCHANGED <<fn, arg, ret, done, prog, detector, results, setup, exit_code>>

\* main: if not check_dependencies(): sys.exit(1)
main_check_dependencies_mousekbd ==
    /\ prog = "mousekbd"
    /\ pc = "m_main"
    /\ IF setup.dependencies
       THEN pc' = "m_idle" /\ exit_code' = exit_code
       ELSE pc' = "m_done" /\ exit_code' = "1"
    /\ UNCHANGED <<fn, arg, ret, done, prog, run, stages, stream, q, audio_data,
                   detector, results, frame, calls, motion_data, listeners,
                   inflight, setup>>

\* top of the while loop: start_motion_tracking()
start_motion_tracking ==
    /\ prog = "mousekbd"
    /\ pc = "m_idle"
    /\ run < MaxWindows
    /\ run' = run + 1
    /\ motion_data' = NewMotionData(TRUE)
    /\ listeners' = [mouse |-> "running", keyboard |-> "running"]
    /\ stages' = <<"CapturingWindows">>
    /\ frame' = InitFrame
    /\ calls' = NoCalls
    /\ pc' = "m_record_audio"
    /\ UNCHANGED <<stream, q, audio_data>>
    /\ ActivityOnly
    /\ UNCHANGED inflight

\* a listener thread that is executing no callback
NoCallback == [at |-> "idle", val |-> 0, window |-> 0]

\* motion_data[key] += 1 is a read of motion_data[key] followed by a write
\* of the value read plus one; the thread holds the dict it loaded, so a
\* write that comes after start_motion_tracking has installed a new dict
\* goes to the old one
CallbackRead(thread, key) ==
    /\ prog = "mousekbd"
    /\ listeners[thread] = "running"
    /\ inflight[thread].at = "idle"
    /\ inflight' = [inflight EXCEPT
                       ![thread] = [at |-> key, val |-> motion_data[key],
                                    window |-> run]]
    /\ frame' = [frame EXCEPT !.delivered[key] = @ + 1]
    /\ UNCHANGED <<pc, run, stages, stream, q, audio_data, calls, listeners,
                   motion_data>>
    /\ ActivityOnly

CallbackWrite(thread, key) ==
    /\ prog = "mousekbd"
    /\ inflight[thread].at = key
    /\ motion_data' = IF inflight[thread].window = run
                       THEN [motion_data EXCEPT ![key] = inflight[thread].val + 1]
                       ELSE motion_data
    /\ inflight' = [inflight EXCEPT ![thread] = NoCallback]
    /\ UNCHANGED <<pc, run, stages, stream, q, audio_data, frame, calls, listeners>>
    /\ ActivityOnly

track_mouse_movement_read ==
    /\ motion_data.mouse_movements < MaxMoves
    /\ CallbackRead("mouse", "mouse_movements")

track_mouse_movement_write == CallbackWrite("mouse", "mouse_movements")

track_mouse_movement ==
    \/ track_mouse_movement_read
    \/ track_mouse_movement_write

\* only press events are counted, not releases
track_mouse_click_read ==
    /\ motion_data.mouse_clicks < MaxClicks
    /\ \E pressed \in BOOLEAN :
          IF pressed
          THEN CallbackRead("mouse", "mouse_clicks")
          ELSE /\ prog = "mousekbd"
               /\ listeners.mouse = "running"
               /\ inflight.mouse.at = "idle"
               /\ UNCHANGED sessVars
               /\ UNCHANGED pureVars

track_mouse_click_write == CallbackWrite("mouse", "mouse_clicks")

track_mouse_click ==
    \/ track_mouse_click_read
    \/ track_mouse_click_write

track_key_press_read ==
    /\ motion_data.key_presses < MaxKeys
    /\ CallbackRead("keyboard", "key_presses")

track_key_press_write == CallbackWrite("keyboard", "key_presses")

track_key_press ==
    \/ track_key_press_read
    \/ track_key_press_write

main_record_audio_open ==
    /\ prog = "mousekbd"
    /\ pc = "m_record_audio"
    /\ IF setup.device = "missing"
       THEN stream' = stream /\ pc' = "m_exit"
       ELSE stream' = "open" /\ pc' = "m_recording"
    /\ q' = <<>>
    /\ audio_data' = <<>>
    /\ UNCHANGED <<run, stages, frame, calls, motion_data, listeners>>
    /\ ActivityOnly
    /\ UNCHANGED inflight

main_record_audio_callback ==
    /\ prog = "mousekbd"
    /\ stream = "open"
    /\ Len(q) < MaxChunks
    /\ q' = Append(q, frame.produced + 1)
    /\ frame' = [frame EXCEPT !.produced = @ + 1]
    /\ UNCHANGED <<pc, run, stages, stream, audio_data, calls,
                   motion_data, listeners>>
    /\ ActivityOnly
    /\ UNCHANGED inflight

main_record_audio_close ==
    /\ prog = "mousekbd"
    /\ pc = "m_recording"
    /\ stream' = "closed"
    /\ pc' = "m_drain"
    /\ UNCHANGED <<run, stages, q, audio_data, frame, calls, motion_data, listeners>>
    /\ ActivityOnly
    /\ UNCHANGED inflight

\* np.concatenate raises ValueError on an empty list; main catches it
\* (except Exception) and leaves the loop
main_record_audio_drain ==
    /\ prog = "mousekbd"
    /\ pc = "m_drain"
    /\ audio_data' = q
    /\ q' = <<>>
    /\ pc' = IF q = <<>> THEN "m_exit" ELSE "m_stop"
    /\ UNCHANGED <<run, stages, stream, frame, calls, motion_data, listeners>>
    /\ ActivityOnly
    /\ UNCHANGED inflight

\* the user interrupts while the captures are in progress: the with block
\* of record_audio closes the stream on the way out; except
\* KeyboardInterrupt prints a message and breaks out of the loop
main_KeyboardInterrupt ==
    /\ prog = "mousekbd"
    /\ pc \in {"m_record_audio", "m_recording", "m_drain"}
    /\ stream' = IF stream = "open" THEN "closed" ELSE stream
    /\ frame' = [frame EXCEPT !.aborted = TRUE]
    /\ pc' = "m_exit"
    /\ UNCHANGED <<run, stages, q, audio_data, calls, motion_data, listeners>>
    /\ ActivityOnly
    /\ UNCHANGED inflight

\* stop_motion_tracking: end_time is taken and both listeners are stopped
stop_motion_tracking_stop ==
    /\ prog = "mousekbd"
    /\ pc = "m_stop"
    /\ \E duration \in Elapsed :
          motion_data' = [motion_data EXCEPT !.end_time = TRUE,
                                             !.duration = duration]
    /\ listeners' = [mouse |-> "stopped", keyboard |-> "stopped"]
    /\ pc' = "m_rates"
    /\ UNCHANGED <<run, stages, stream, q, audio_data, frame, calls>>
    /\ ActivityOnly
    /\ UNCHANGED inflight

\* stop_motion_tracking: the three rates, and the dict is returned
stop_motion_tracking_rates ==
    /\ prog = "mousekbd"
    /\ pc = "m_rates"
    /\ LET r == WithRates(motion_data, motion_data.duration)
       IN  motion_data' = [motion_data EXCEPT
                             !.has_rates = TRUE,
                             !.mouse_movement_rate = r.mouse_movement_rate,
                             !.mouse_click_rate = r.mouse_click_rate,
                             !.key_press_rate = r.key_press_rate]
    /\ frame' = [frame EXCEPT
                    !.sample = [mouse_movements |-> motion_data.mouse_movements,
                                mouse_clicks |-> motion_data.mouse_clicks,
                                key_presses |-> motion_data.key_presses]]
    /\ pc' = "m_save_audio"
    /\ UNCHANGED <<run, stages, stream, q, audio_data, calls, listeners>>
    /\ ActivityOnly
    /\ UNCHANGED inflight

main_save_audio ==
    /\ prog = "mousekbd"
    /\ pc = "m_save_audio"
    /\ pc' = "m_detect_stress"
    /\ UNCHANGED <<run, stages, stream, q, audio_data, frame, calls,
                   motion_data, listeners>>
    /\ ActivityOnly
    /\ UNCHANGED inflight

\* audio_stress_detected = detect_stress(audio_data, sample_rate)
main_detect_stress ==
    /\ prog = "mousekbd"
    /\ pc = "m_detect_stress"
    /\ \E a \in SessionFeatureArgs :
          frame' = [frame EXCEPT
                       !.audio_stress_detected = detect_stress(a.outcome, a.features),
                       !.normalized = @ \cup {"voice"}]
    /\ stages' = Append(stages, "Normalizing")
    /\ pc' = "m_analyze_motion_data"
    /\ UNCHANGED <<run, stream, q, audio_data, calls, motion_data, listeners>>
    /\ ActivityOnly
    /\ UNCHANGED inflight

\* motion_stress_detected = analyze_motion_data(motion_data)
main_analyze_motion_data ==
    /\ prog = "mousekbd"
    /\ pc = "m_analyze_motion_data"
    /\ frame' = [frame EXCEPT
                    !.motion_stress_detected = analyze_motion_data(motion_data),
                    !.normalized = @ \cup {"motion"}]
    /\ pc' = "m_combine"
    /\ UNCHANGED <<run, stages, stream, q, audio_data, calls, motion_data, listeners>>
    /\ ActivityOnly
    /\ UNCHANGED inflight

\* mutant: both modalities must be stressed
main_combine_and ==
    /\ prog = "mousekbd"
    /\ pc = "m_combine"
    /\ frame' = [frame EXCEPT
                    !.stress_detected =
                        frame.audio_stress_detected /\ frame.motion_stress_detected,
                    !.fused = TRUE]
    /\ stages' = Append(stages, "Fusing")
    /\ pc' = "m_decide"
    /\ UNCHANGED <<run, stream, q, audio_data, calls, motion_data, listeners>>
    /\ ActivityOnly
    /\ UNCHANGED inflight

\* stress_detected = audio_stress_detected or motion_stress_detected
main_combine ==
    /\ prog = "mousekbd"
    /\ pc = "m_combine"
    /\ frame' = [frame EXCEPT
                    !.stress_detected =
                        frame.audio_stress_detected \/ frame.motion_stress_detected,
                    !.fused = TRUE]
    /\ stages' = Append(stages, "Fusing")
    /\ pc' = "m_decide"
    /\ UNCHANGED <<run, stream, q, audio_data, calls, motion_data, listeners>>
    /\ ActivityOnly
    /\ UNCHANGED inflight

\* if stress_detected: ... else: ...
main_decide ==
    /\ prog = "mousekbd"
    /\ pc = "m_decide"
    /\ IF frame.stress_detected
       THEN /\ stages' = stages \o <<"ActionDecision", "Triggered">>
            /\ pc' = "m_locate"
       ELSE /\ stages' = stages \o <<"ActionDecision", "Settled">>
            /\ pc' = "m_prompt"
    /\ UNCHANGED <<run, stream, q, audio_data, frame, calls, motion_data, listeners>>
    /\ ActivityOnly
    /\ UNCHANGED inflight

\* location_data = get_location_by_geocoder()
main_locate ==
    /\ prog = "mousekbd"
    /\ pc = "m_locate"
    /\ \E location_data \in get_location_by_geocoder :
          /\ frame' = [frame EXCEPT !.location_data = location_data]
          /\ pc' = IF Truthy(location_data) THEN "m_open_maps" ELSE "m_prompt"
    /\ calls' = [calls EXCEPT !.resolver = @ + 1]
    /\ UNCHANGED <<run, stages, stream, q, audio_data, motion_data, listeners>>
    /\ ActivityOnly
    /\ UNCHANGED inflight

\* if open_google_maps(location_data): ...
main_open_maps ==
    /\ prog = "mousekbd"
    /\ pc = "m_open_maps"
    /\ calls' = [calls EXCEPT !.maps = @ + 1]
    /\ frame' = [frame EXCEPT !.maps_opened = open_google_maps(frame.location_data)]
    /\ pc' = "m_prompt"
    /\ UNCHANGED <<run, stages, stream, q, audio_data, motion_data, listeners>>
    /\ ActivityOnly
    /\ UNCHANGED inflight

\* choice = input(...): 'y' goes round the loop, anything else breaks
main_prompt ==
    /\ prog = "mousekbd"
    /\ pc = "m_prompt"
    /\ \E choice \in {"y", "n"} :
          pc' = IF choice = "y" THEN "m_idle" ELSE "m_exit"
    /\ stages' = Append(stages, "Idle")
    /\ UNCHANGED <<run, stream, q, audio_data, frame, calls, motion_data, listeners>>
    /\ ActivityOnly
    /\ UNCHANGED inflight

\* after the loop: the temporary file is removed, main returns and the
\* process exits with 0
main_exit_mousekbd ==
    /\ prog = "mousekbd"
    /\ pc = "m_exit"
    /\ exit_code' = "0"
    /\ pc' = "m_done"
    /\ UNCHANGED <<fn, arg, ret, done, prog, run, stages, stream, q, audio_data,
                   detector, results, frame, calls, motion_data, listeners,
                   inflight, setup>>

ActivityNext ==
    \/ main_check_dependencies_mousekbd
    \/ start_motion_tracking
    \/ track_mouse_movement
    \/ track_mouse_click
    \/ track_key_press
    \/ main_record_audio_open
    \/ main_record_audio_callback
    \/ main_record_audio_close
    \/ main_record_audio_drain
    \/ main_KeyboardInterrupt
    \/ stop_motion_tracking_stop
    \/ stop_motion_tracking_rates
    \/ main_save_audio
    \/ main_detect_stress
    \/ main_analyze_motion_data
    \/ main_combine
    \/ main_decide
    \/ main_locate
    \/ main_open_maps
    \/ main_prompt
    \/ main_exit_mousekbd

----------------------------------------------------------------------------
(* The sessions: one of the two programs runs from its start.              *)

SessionIdle ==
    /\ run = 0
    /\ stages = <<>>
    /\ stream = "none"
    /\ q = <<>>
    /\ audio_data = <<>>
    /\ detector = [state |-> "idle", frames |-> 0]
    /\ results = InitResults
    /\ frame = InitFrame
    /\ calls = NoCalls
    /\ motion_data = NewMotionData(FALSE)
    /\ listeners = [mouse |-> "none", keyboard |-> "none"]
    /\ inflight = [mouse |-> NoCallback, keyboard |-> NoCallback]
    /\ exit_code = "none"

Init ==
    /\ fn = "none" /\ arg = <<>> /\ ret = <<>> /\ done = FALSE
    /\ \/ prog = "integrated" /\ pc = "main" /\ setup \in Setups
       \/ prog = "mousekbd" /\ pc = "m_main" /\ setup \in SetupsMousekbd
    /\ SessionIdle

Next == IntegratedNext \/ ActivityNext

Spec == Init /\ [][Next]_vars

----------------------------------------------------------------------------
(* The pure functions as a specification: one call per behaviour.         *)

\* self.results as a Triggered run leaves it
LeftOverResults ==
    [audio_stress_detected |-> FALSE,
     motion_stress_detected |-> TRUE,
     audio_stress_level |-> 0,
     motion_stress_level |-> ONE,
     combined_stress_level |-> Tenths(6),
     panic_detected |-> FALSE,
     location_data |-> [kind |-> "record", loc |-> "12.97,77.59"]]

PureInit ==
    /\ prog = "none" /\ pc = "none"
    /\ setup = [duration |-> record_audio_duration, device |-> "ok",
                dependencies |-> TRUE]
    /\ run = 0
    /\ stages = <<>>
    /\ stream = "none"
    /\ q = <<>>
    /\ audio_data = <<>>
    /\ detector = [state |-> "idle", frames |-> 0]
    /\ results \in {InitResults, LeftOverResults}
    /\ frame = InitFrame
    /\ calls = NoCalls
    /\ motion_data = NewMotionData(FALSE)
    /\ listeners = [mouse |-> "none", keyboard |-> "none"]
    /\ inflight = [mouse |-> NoCallback, keyboard |-> NoCallback]
    /\ exit_code = "none"
    /\ done = FALSE
    /\ ret = <<>>
    /\ \/ fn \in DiscreteCopies /\ arg \in FeatureArgs(DiscreteFeatures)
       \/ fn = "IntegratedStressDetector_detect_stress"
            /\ arg \in FeatureArgs(ContinuousFeatures)
       \/ fn = "analyze_combined_stress"
            /\ arg \in [audio_stress_detected: BOOLEAN,
                        audio_stress_level: Levels,
                        motion_stress_level: Levels]
       \/ fn = "analyze_motion_data" /\ arg \in ActivitySamples
       \/ fn = "open_google_maps"
            /\ arg \in [location_data: LocationValues,
                        webbrowser_open: WebbrowserOutcomes]

Call_detect_stress ==
    /\ fn = "detect_stress" /\ ~done
    /\ ret' = <<detect_stress(arg.outcome, arg.features)>>
    /\ done' = TRUE
    /\ UNCHANGED <<fn, arg>>
    /\ UNCHANGED sessVars

Call_detect_stress_hackathon ==
    /\ fn = "detect_stress_hackathon" /\ ~done
    /\ ret' = <<detect_stress_hackathon(arg.outcome, arg.features)>>
    /\ done' = TRUE
    /\ UNCHANGED <<fn, arg>>
    /\ UNCHANGED sessVars

Call_detect_stress_file ==
    /\ fn = "detect_stress_file" /\ ~done
    /\ ret' = <<detect_stress_file(arg.outcome, arg.features)>>
    /\ done' = TRUE
    /\ UNCHANGED <<fn, arg>>
    /\ UNCHANGED sessVars

Call_IntegratedStressDetector_detect_stress ==
    /\ fn = "IntegratedStressDetector_detect_stress" /\ ~done
    /\ ret' = <<IntegratedStressDetector_detect_stress(arg.outcome, arg.features)>>
    /\ done' = TRUE
    /\ UNCHANGED <<fn, arg>>
    /\ UNCHANGED sessVars

Call_analyze_combined_stress ==
    /\ fn = "analyze_combined_stress" /\ ~done
    /\ ret' = <<analyze_combined_stress(arg.audio_stress_detected,
                                        arg.audio_stress_level,
                                        arg.motion_stress_level)>>
    /\ done' = TRUE
    /\ UNCHANGED <<fn, arg>>
    /\ UNCHANGED sessVars

\* stop_motion_tracking closes the window, analyze_motion_data judges it
Call_analyze_motion_data ==
    /\ fn = "analyze_motion_data" /\ ~done
    /\ LET md == WithRates(arg, arg.duration)
       IN  ret' = <<md, analyze_motion_data(md)>>
    /\ done' = TRUE
    /\ UNCHANGED <<fn, arg>>
    /\ UNCHANGED sessVars

Call_open_google_maps ==
    /\ fn = "open_google_maps" /\ ~done
    /\ ret' = <<open_google_maps_call(arg.location_data, arg.webbrowser_open)>>
    /\ done' = TRUE
    /\ UNCHANGED <<fn, arg>>
    /\ UNCHANGED sessVars

PureNext ==
    \/ Call_detect_stress
    \/ Call_detect_stress_hackathon
    \/ Call_detect_stress_file
    \/ Call_IntegratedStressDetector_detect_stress
    \/ Call_analyze_combined_stress
    \/ Call_analyze_motion_data
    \/ Call_open_google_maps

SpecPure == PureInit /\ [][PureNext]_vars

----------------------------------------------------------------------------
(* Properties of the pure functions (checked under SpecPure).              *)

Returned(f) == fn = f /\ done

C1_Cutoffs ==
    [pitch_mean |-> 150, energy_mean |-> 70, zcr_mean |-> 100,
     spectral_centroid_mean |-> 2000]

C1_Indicators(f) == {d \in DOMAIN C1_Cutoffs : f[d] > C1_Cutoffs[d]}

\* C1: in every copy of the discrete audio detector, detect_stress on
\* extracted features returns true iff at least 2 of the 4 descriptors
\* strictly exceed their cutoffs (150 Hz, 0.7, 0.1, 2000 Hz); a descriptor
\* equal to its cutoff is no indicator; scenario A is false, B is true.
C1_DiscreteQuorum ==
    \A c \in DiscreteCopies :
        (Returned(c) /\ arg.outcome = "features") =>
            /\ ret[1] <=> Cardinality(C1_Indicators(arg.features)) >= 2
            /\ arg.features = [pitch_mean |-> 200, energy_mean |-> 30,
                               zcr_mean |-> 50, spectral_centroid_mean |-> 1000]
                  => ret[1] = FALSE
            /\ arg.features = [pitch_mean |-> 200, energy_mean |-> 90,
                               zcr_mean |-> 200, spectral_centroid_mean |-> 3000]
                  => ret[1] = TRUE

\* one descriptor above its cutoff and one exactly at it: not stressed
C1_Witness ==
    /\ Returned("detect_stress")
    /\ arg.outcome = "features"
    /\ arg.features = [pitch_mean |-> 150, energy_mean |-> 71,
                       zcr_mean |-> 50, spectral_centroid_mean |-> 1000]
    /\ ret[1] = FALSE

\* C2: analyze_motion_data returns true iff at least one of the rates
\* count / elapsed seconds strictly exceeds its cutoff (10, 2, 5 per second);
\* 60 movements, 5 clicks and 10 key presses over 10 s give false.
C2_ActivityQuorum ==
    (Returned("analyze_motion_data") /\ arg.duration > 0) =>
        /\ ret[1].mouse_movement_rate = <<arg.mouse_movements, arg.duration>>
        /\ ret[1].mouse_click_rate = <<arg.mouse_clicks, arg.duration>>
        /\ ret[1].key_press_rate = <<arg.key_presses, arg.duration>>
        /\ ret[2] <=> \/ arg.mouse_movements > 10 * arg.duration
                      \/ arg.mouse_clicks > 2 * arg.duration
                      \/ arg.key_presses > 5 * arg.duration
        /\ (arg.mouse_movements = 60 /\ arg.mouse_clicks = 5
              /\ arg.key_presses = 10 /\ arg.duration = 10) => ret[2] = FALSE

\* exactly one rate above its cutoff, the other two exactly at theirs
C2_Witness ==
    /\ Returned("analyze_motion_data")
    /\ arg = [mouse_movements |-> 100, mouse_clicks |-> 21,
              key_presses |-> 50, duration |-> 10]
    /\ ret[2] = TRUE

\* raw value, baseline and range of the four descriptors, in model units
C3_Pairs(f) ==
    <<[raw |-> f.pitch_mean, baseline |-> 130, range |-> 50],
      [raw |-> f.energy_mean, baseline |-> 50, range |-> 50],
      [raw |-> f.zcr_mean, baseline |-> 80, range |-> 120],
      [raw |-> f.spectral_centroid_mean, baseline |-> 1800, range |-> 700]>>

\* C3: each of the four contributions of the continuous policy is
\* clip01((raw - baseline) / range): 0 at or below the baseline, 1 at or
\* above baseline + range, linear and strictly between 0 and 1 in between.
C3_ClipLinear ==
    (Returned("IntegratedStressDetector_detect_stress")
        /\ arg.outcome = "features") =>
        /\ Len(ret[1].stress_levels) = 4
        /\ \A i \in 1..4 :
              LET p == C3_Pairs(arg.features)[i]
                  c == ret[1].stress_levels[i]
              IN  /\ 0 <= c /\ c <= ONE
                  /\ p.raw <= p.baseline => c = 0
                  /\ p.raw >= p.baseline + p.range => c = ONE
                  /\ (p.baseline < p.raw /\ p.raw < p.baseline + p.range) =>
                        /\ 0 < c /\ c < ONE
                        /\ c * p.range = (p.raw - p.baseline) * ONE

\* zcr above baseline + range is clamped to 1, pitch just above its
\* baseline is strictly inside (0, 1)
C3_Witness ==
    /\ Returned("IntegratedStressDetector_detect_stress")
    /\ arg.outcome = "features"
    /\ arg.features.zcr_mean = 250 /\ ret[1].stress_levels[3] = ONE
    /\ arg.features.pitch_mean = 131
    /\ ret[1].stress_levels[1] > 0 /\ ret[1].stress_levels[1] < ONE

\* C4: for voice and motion levels in [0,1] analyze_combined_stress returns
\* combined = 0.4 * voice + 0.6 * motion; it is non-decreasing in each
\* argument, combine(0,0) = 0, combine(1,1) = 1, combine(0.6,0.8) = 0.72.
C4_WeightedFusion ==
    Returned("analyze_combined_stress") =>
        LET v == arg.audio_stress_level
            m == arg.motion_stress_level
            c == ret[1].combined_level
        IN  /\ c * 10 = v * 4 + m * 6
            /\ \A v2 \in Levels : v2 >= v =>
                  analyze_combined_stress(arg.audio_stress_detected, v2, m)
                      .combined_level >= c
            /\ \A m2 \in Levels : m2 >= m =>
                  analyze_combined_stress(arg.audio_stress_detected, v, m2)
                      .combined_level >= c
            /\ (v = 0 /\ m = 0) => c = 0
            /\ (v = ONE /\ m = ONE) => c = ONE
            /\ (v = Tenths(6) /\ m = Tenths(8)) => c = (72 * ONE) \div 100

C4_Witness ==
    /\ Returned("analyze_combined_stress")
    /\ arg.audio_stress_level = Tenths(6)
    /\ arg.motion_stress_level = Tenths(8)
    /\ ret[1].combined_level = (72 * ONE) \div 100

\* the five bands as intervals [lo, hi) of levels; Panic includes 1.0
C5_Bands ==
    {[name |-> "Calm", lo |-> 0, hi |-> Tenths(3)],
     [name |-> "Mild Stress", lo |-> Tenths(3), hi |-> Tenths(5)],
     [name |-> "Moderate Stress", lo |-> Tenths(5), hi |-> Tenths(7)],
     [name |-> "High Stress", lo |-> Tenths(7), hi |-> Tenths(9)],
     [name |-> "Panic", lo |-> Tenths(9), hi |-> ONE + 1]}

C5_BandsOf(level) == {b \in C5_Bands : b.lo <= level /\ level < b.hi}

C5_InBand(level, description) ==
    /\ Cardinality(C5_BandsOf(level)) = 1
    /\ \A b \in C5_BandsOf(level) : b.name = description

\* C5: the band depends on the level alone and the five bands partition
\* [0,1] (Calm < 0.3 <= Mild < 0.5 <= Moderate < 0.7 <= High < 0.9 <= Panic);
\* the chain for the voice level and the chain for the combined level give
\* the same band for the same level.
C5_BandPartition ==
    /\ (Returned("IntegratedStressDetector_detect_stress")
          /\ arg.outcome = "features") =>
            /\ C5_InBand(ret[1].stress_level, ret[1].description)
            /\ description_combined(ret[1].stress_level) = ret[1].description
    /\ Returned("analyze_combined_stress") =>
            /\ C5_InBand(ret[1].combined_level, ret[1].description)
            /\ description_voice(ret[1].combined_level) = ret[1].description
            /\ ret[1].combined_level = 0 => ret[1].description = "Calm"
            /\ ret[1].combined_level = Tenths(3) => ret[1].description = "Mild Stress"
            /\ ret[1].combined_level = ONE => ret[1].description = "Panic"

\* a combined level of exactly 0.3 is Mild Stress
C5_Witness ==
    /\ Returned("analyze_combined_stress")
    /\ ret[1].combined_level = Tenths(3)
    /\ ret[1].description = "Mild Stress"

\* C6: is_high_stress iff the combined level reaches 0.5, is_panic iff it
\* reaches 0.7, both decided from the number and not from the band name:
\* is_panic implies is_high_stress, and a level in [0.7, 0.9) is panic while
\* its band is High Stress.
C6_NumericPanic ==
    Returned("analyze_combined_stress") =>
        LET c == ret[1].combined_level
        IN  /\ ret[1].is_high_stress <=> c >= Tenths(5)
            /\ ret[1].is_panic <=> c >= Tenths(7)
            /\ ret[1].is_panic => ret[1].is_high_stress
            /\ (Tenths(7) <= c /\ c < Tenths(9)) =>
                  ret[1].is_panic /\ ret[1].description = "High Stress"

C6_Witness ==
    /\ Returned("analyze_combined_stress")
    /\ ret[1].combined_level = (72 * ONE) \div 100
    /\ ret[1].is_panic
    /\ ret[1].description = "High Stress"

Failed(outcome) == outcome \in {"none", "raise"}

\* C11: when feature extraction fails (extract_features returns None or
\* raises) the modality counts as absent: every discrete detector returns
\* false, the continuous detector returns is_stressed = false with level 0,
\* and the combined level is computed with 0 in the place of the missing
\* level: 0.4 * voice for a missing motion level, 0.6 * motion for a missing
\* voice level; voice 0.9 with motion 0 gives 0.36, Mild Stress.
C11_AbsentModality ==
    /\ \A c \in DiscreteCopies :
          (Returned(c) /\ Failed(arg.outcome)) => ret[1] = FALSE
    /\ (Returned("IntegratedStressDetector_detect_stress") /\ Failed(arg.outcome)) =>
          /\ ret[1].is_stressed = FALSE
          /\ ret[1].stress_level = 0
    /\ Returned("analyze_combined_stress") =>
          /\ arg.motion_stress_level = 0 =>
                ret[1].combined_level * 10 = arg.audio_stress_level * 4
          /\ arg.audio_stress_level = 0 =>
                ret[1].combined_level * 10 = arg.motion_stress_level * 6
          /\ (arg.audio_stress_level = Tenths(9) /\ arg.motion_stress_level = 0) =>
                /\ ret[1].combined_level = (36 * ONE) \div 100
                /\ ret[1].description = "Mild Stress"

\* voice level 0.9 fused with a motion level of 0
C11_Witness ==
    /\ Returned("analyze_combined_stress")
    /\ arg.audio_stress_level = Tenths(9)
    /\ arg.motion_stress_level = 0
    /\ ret[1].combined_level = (36 * ONE) \div 100
    /\ ret[1].description = "Mild Stress"

\* C13: for every pair of levels in [0,1] the combined level returned by
\* analyze_combined_stress lies in [0,1].
C13_CombinedInUnitInterval ==
    Returned("analyze_combined_stress") =>
        /\ 0 <= ret[1].combined_level
        /\ ret[1].combined_level <= ONE

\* both levels at 1.0: the combined level is exactly 1.0
C13_Witness ==
    /\ Returned("analyze_combined_stress")
    /\ arg.audio_stress_level = ONE
    /\ arg.motion_stress_level = ONE
    /\ ret[1].combined_level = ONE

\* C19: the continuous detector reports the voice as stressed iff its level
\* is strictly greater than 0.3; at exactly 0.3 is_stressed is false while
\* the band is Mild Stress.
C19_VoiceCutoff ==
    (Returned("IntegratedStressDetector_detect_stress")
        /\ arg.outcome = "features") =>
        /\ ret[1].is_stressed <=> ret[1].stress_level > Tenths(3)
        /\ ret[1].stress_level = Tenths(3) =>
              /\ ret[1].is_stressed = FALSE
              /\ ret[1].description = "Mild Stress"

\* contributions 1.0, 0.2, 0, 0 average to exactly 0.3
C19_Witness ==
    /\ Returned("IntegratedStressDetector_detect_stress")
    /\ arg.outcome = "features"
    /\ ret[1].stress_level = Tenths(3)
    /\ ret[1].is_stressed = FALSE
    /\ ret[1].description = "Mild Stress"

----------------------------------------------------------------------------
(* Properties of the detection sessions (checked under Spec).              *)

Entered(stage) == \E i \in 1..Len(stages) : stages[i] = stage

IsPrefix(s, t) == Len(s) <= Len(t) /\ \A i \in 1..Len(s) : s[i] = t[i]

\* C7: a run of run_detection becomes Triggered iff the high-stress or the
\* panic condition holds for the combined level; the location resolver and
\* the map opener are invoked only in a Triggered run and at most once per
\* run; a Settled run invokes neither and writes no location into the
\* results.
C7_TriggerGate ==
    /\ [](prog = "integrated" =>
            /\ calls.resolver <= 1 /\ calls.maps <= 1
            /\ (calls.resolver > 0 \/ calls.maps > 0) => Entered("Triggered")
            /\ Entered("Settled") => calls = NoCalls
            /\ ~(Entered("Triggered") /\ Entered("Settled"))
            /\ Entered("ActionDecision") =>
                  /\ Entered("Triggered") \/ Entered("Settled")
                  /\ Entered("Triggered") <=>
                        \/ frame.combined_level >= Tenths(5)
                        \/ frame.combined_level >= Tenths(7))
    /\ [][(prog = "integrated" /\ results'.location_data # results.location_data)
            => (Entered("Triggered") /\ ~Entered("Settled"))]_vars

\* a Triggered run that resolved a location and opened the map
C7_Witness ==
    /\ prog = "integrated"
    /\ pc = "returned"
    /\ Entered("Triggered")
    /\ frame.combined_level >= Tenths(5)
    /\ calls = [resolver |-> 1, maps |-> 1]
    /\ frame.maps_opened

Canonical(outcome) ==
    <<"CapturingWindows", "Normalizing", "Fusing", "Classifying",
      "ActionDecision", outcome, "Idle">>

\* C9: within one run of run_detection the stages occur strictly in the
\* order capture, normalization, fusion, classification, action decision,
\* then exactly one of Triggered or Settled; none is skipped, repeated or
\* reordered, and each stage's work is done when the next one starts.
C9_StageOrder ==
    prog = "integrated" =>
        /\ \E outcome \in {"Triggered", "Settled"} :
              IsPrefix(stages, Canonical(outcome))
        /\ pc = "returned" =>
              stages \in {Canonical("Triggered"), Canonical("Settled")}
        /\ frame.normalized # {} => Entered("Normalizing")
        /\ Entered("Fusing") <=> frame.fused
        /\ Entered("Fusing") => frame.normalized = {"voice", "motion"}
        /\ Entered("Classifying") <=> frame.description # ""
        /\ calls.resolver > 0 => Entered("Triggered")

C9_Witness ==
    /\ prog = "integrated"
    /\ pc = "returned"
    /\ stages = Canonical("Triggered")

\* C10: no carry-over between runs: when run_detection returns, every field
\* of the results (stress flags, levels, panic flag and location_data)
\* reflects the run that just ended (location_data is None unless this run
\* resolved one), and each new activity window starts with all counters 0.
C10_NoCarryOver ==
    /\ (prog = "integrated" /\ pc = "returned") =>
          /\ results.audio_stress_detected = frame.audio_stress_detected
          /\ results.motion_stress_detected =
                (frame.motion_stress_level > motion_detector_stress_threshold)
          /\ results.audio_stress_level = frame.audio_stress_level
          /\ results.motion_stress_level = frame.motion_stress_level
          /\ results.combined_stress_level = frame.combined_level
          /\ results.panic_detected = frame.is_panic
          /\ results.location_data = frame.location_data
    /\ \A t \in BOOLEAN :
          /\ NewMotionData(t).mouse_movements = 0
          /\ NewMotionData(t).mouse_clicks = 0
          /\ NewMotionData(t).key_presses = 0

\* C12: a capture failure is never fatal: a run that was not interrupted by
\* the user and whose capture could not produce its window (the audio stream
\* delivered no data) still reaches fusion and the action decision before
\* the program leaves it.
C12_CaptureNeverFatal ==
    (pc \in {"raised", "exit", "done", "m_exit", "m_done"}
        /\ run > 0 /\ ~frame.aborted) =>
        /\ Entered("Fusing")
        /\ Entered("ActionDecision")

Counts(md) ==
    [mouse_movements |-> md.mouse_movements,
     mouse_clicks |-> md.mouse_clicks,
     key_presses |-> md.key_presses]

\* C14: under every interleaving of the listener callbacks with the
\* orchestrator, each counter read when the window is closed equals the
\* number of events delivered to the listeners during the window: no
\* increment is lost and none is still in the middle of its update.
C14_CountersSafe ==
    (prog = "mousekbd" /\ motion_data.has_rates) =>
        frame.sample = frame.delivered

\* C15: once stop_motion_tracking has returned its sample, the counts of the
\* sample never change and each rate is the count of the same sample divided
\* by the elapsed seconds, also when a callback finishes after the stop.
C15_SampleImmutable ==
    (prog = "mousekbd" /\ motion_data.has_rates) =>
        /\ Counts(motion_data) = frame.sample
        /\ motion_data.mouse_movement_rate =
              Rate(motion_data.mouse_movements, motion_data.duration)
        /\ motion_data.mouse_click_rate =
              Rate(motion_data.mouse_clicks, motion_data.duration)
        /\ motion_data.key_press_rate =
              Rate(motion_data.key_presses, motion_data.duration)

\* C16: when the user interrupts while a capture is in progress, every
\* capture collaborator is stopped and released before the program ends (the
\* stream is closed, the mouse and keyboard listeners are stopped, the motion
\* detector is released), and nothing of the aborted run is normalized or
\* fused.
C16_AbortStopsCaptures ==
    (frame.aborted /\ pc \in {"exit", "done", "m_exit", "m_done"}) =>
        /\ stream # "open"
        /\ listeners.mouse # "running"
        /\ listeners.keyboard # "running"
        /\ prog = "integrated" => detector.state = "released"
        /\ frame.normalized = {}
        /\ ~frame.fused

\* C17: when the resolver returns None in a Triggered run, the map opener is
\* not invoked in that run, and the run goes on to report the classification
\* it had computed.
C17_ResolutionFailure ==
    (Entered("Triggered") /\ calls.resolver = 1 /\ ~Truthy(frame.location_data)) =>
        /\ calls.maps = 0
        /\ ~frame.maps_opened
        /\ prog = "integrated" =>
              /\ pc \in {"cleanup", "returned", "exit", "done"}
              /\ frame.description # ""
              /\ results.combined_stress_level = frame.combined_level
              /\ results.panic_detected = frame.is_panic
              /\ results.location_data = None
        /\ prog = "mousekbd" =>
              /\ pc \in {"m_prompt", "m_idle", "m_exit", "m_done"}
              /\ frame.stress_detected

\* a Triggered run of run_detection returned although no location was found
C17_Witness ==
    /\ prog = "integrated"
    /\ pc = "returned"
    /\ Entered("Triggered")
    /\ calls = [resolver |-> 1, maps |-> 0]
    /\ frame.location_data = None
    /\ results.combined_stress_level >= Tenths(5)

\* C18: handling a Triggered run never rolls back the classification: from
\* the moment the results are stored until run_detection returns, the
\* stress flags, the three levels and panic_detected keep the values the
\* run computed, whether the map opener succeeds or fails.
C18_NoRollback ==
    (prog = "integrated"
        /\ pc \in {"decide", "handle", "open_maps", "cleanup", "returned"}) =>
        /\ results.audio_stress_detected = frame.audio_stress_detected
        /\ results.motion_stress_detected =
              (frame.motion_stress_level > motion_detector_stress_threshold)
        /\ results.audio_stress_level = frame.audio_stress_level
        /\ results.motion_stress_level = frame.motion_stress_level
        /\ results.combined_stress_level = frame.combined_level
        /\ results.panic_detected = frame.is_panic

\* the map opener was called and failed, the stored assessment stands
C18_Witness ==
    /\ prog = "integrated"
    /\ pc = "returned"
    /\ Entered("Triggered")
    /\ calls.maps = 1
    /\ ~frame.maps_opened
    /\ results.location_data.loc = "N/A"
    /\ results.combined_stress_level >= Tenths(5)
    /\ results.motion_stress_detected

\* C20 as stated: the motion modality is reported as stressed iff its level
\* is strictly greater than 0.3.
C20_MotionCutoffOriginal ==
    prog = "integrated" =>
        (results.motion_stress_detected <=> results.motion_stress_level > Tenths(3))

\* C20 as amended: the motion modality is reported as stressed iff its level
\* is strictly greater than the detector's stress_threshold, 0.5.
C20_MotionCutoff ==
    prog = "integrated" =>
        (results.motion_stress_detected <=> results.motion_stress_level > Tenths(5))

\* a motion level of exactly 0.5 is stored as not stressed
C20_Witness ==
    /\ prog = "integrated"
    /\ pc = "returned"
    /\ results.motion_stress_level = Tenths(5)
    /\ ~results.motion_stress_detected

\* C21: a configuration error (a window duration of zero or less) is
\* surfaced before any capture starts: with such a configuration the session
\* never starts motion detection or audio recording.
C21_ConfigErrorBeforeCapture ==
    (prog = "integrated" /\ setup.duration <= 0) =>
        /\ run = 0
        /\ stream = "none"
        /\ detector.state = "idle"

AfterHandoff ==
    pc \in {"save_audio", "stop_detection", "detect_stress", "analyze_stress",
            "fuse", "classify", "store", "decide", "handle", "open_maps",
            "cleanup",
            "m_stop", "m_rates", "m_save_audio", "m_detect_stress",
            "m_analyze_motion_data", "m_combine", "m_decide", "m_locate",
            "m_open_maps", "m_prompt"}

\* C22: once record_audio has returned, the audio data is the concatenation
\* of every chunk the stream callback produced, each exactly once and in the
\* order produced; the stream is closed, the queue is empty and no callback
\* adds to the data afterwards.
C22_AudioHandoff ==
    AfterHandoff =>
        /\ stream = "closed"
        /\ q = <<>>
        /\ frame.produced > 0
        /\ audio_data = [i \in 1..frame.produced |-> i]

\* two chunks were produced and both were handed to feature extraction
C22_Witness ==
    /\ prog = "integrated"
    /\ pc = "detect_stress"
    /\ frame.produced = 2
    /\ audio_data = <<1, 2>>

C23_Clip(p) ==
    IF p.raw <= p.baseline THEN 0
    ELSE IF p.raw >= p.baseline + p.range THEN ONE
    ELSE ((p.raw - p.baseline) * ONE) \div p.range

C23_Combined(v, m) ==
    LET c == (v * 4 + m * 6) \div 10
    IN  [is_panic |-> c >= Tenths(7),
         is_high_stress |-> c >= Tenths(5),
         combined_level |-> c,
         description |-> (CHOOSE b \in C5_BandsOf(c) : TRUE).name]

\* C23: normalization, fusion and classification are pure: whatever an
\* earlier run left in self.results, the result is the function of the
\* feature values, of the pair of levels or of the activity sample alone,
\* and the result of analyze_combined_stress is the same for either value
\* of its audio_stress_detected argument.
C23_Pure ==
    /\ Returned("analyze_combined_stress") =>
          /\ ret[1] = C23_Combined(arg.audio_stress_level, arg.motion_stress_level)
          /\ \A b \in BOOLEAN :
                analyze_combined_stress(b, arg.audio_stress_level,
                                        arg.motion_stress_level) = ret[1]
    /\ (Returned("IntegratedStressDetector_detect_stress")
          /\ arg.outcome = "features") =>
          LET p == C3_Pairs(arg.features)
              level == (C23_Clip(p[1]) + C23_Clip(p[2]) + C23_Clip(p[3])
                          + C23_Clip(p[4])) \div 4
          IN  /\ ret[1].stress_level = level
              /\ ret[1].is_stressed = (level > Tenths(3))
    /\ Returned("analyze_motion_data") =>
          ret[2] = /\ arg.duration > 0
                   /\ \/ arg.mouse_movements > 10 * arg.duration
                      \/ arg.mouse_clicks > 2 * arg.duration
                      \/ arg.key_presses > 5 * arg.duration

\* a call on a detector whose results hold an earlier run, with the voice
\* flagged as not stressed at level 1.0: the level still counts
C23_Witness ==
    /\ Returned("analyze_combined_stress")
    /\ results = LeftOverResults
    /\ arg.audio_stress_detected = FALSE
    /\ arg.audio_stress_level = ONE
    /\ arg.motion_stress_level = Tenths(5)
    /\ ret[1].is_panic

\* C24: open_google_maps never raises: for every location value it returns
\* a boolean, true only when the map URL was opened.
C24_MapOpenerNeverRaises ==
    Returned("open_google_maps") =>
        /\ ~ret[1].raised
        /\ ret[1].value => arg.webbrowser_open = "opened"

\* C25: in run_detection both the audio window and the motion window last
\* the configured duration, for every valid configured value.
C25_ConfiguredDuration ==
    (prog = "integrated" /\ pc = "returned" /\ setup.duration > 0) =>
        /\ frame.audio_window = setup.duration
        /\ frame.motion_window = setup.duration

SetupFailure ==
    \/ ~setup.dependencies /\ run = 0
    \/ setup.device = "missing" /\ run > 0

\* C26: the process exits with code 0 on normal completion (also when no
\* stress was detected) and with a nonzero code on an unrecoverable setup
\* failure (missing dependencies, no capture device).
C26_ExitCodes ==
    exit_code # "none" =>
        /\ SetupFailure => exit_code # "0"
        /\ (~SetupFailure /\ ~frame.aborted /\ Entered("Idle")) => exit_code = "0"

\* C27: with a valid setup and no interrupt, every run that started
\* capturing has reached exactly one of Triggered or Settled and then Idle
\* by the time the program ends.
C27_RunsComplete ==
    (pc \in {"done", "m_done"} /\ run > 0 /\ ~frame.aborted
        /\ setup.device = "ok" /\ setup.duration > 0) =>
        /\ Entered("Triggered") # Entered("Settled")
        /\ Entered("Idle")

C29_OrVerdict ==
    prog = "mousekbd" =>
        /\ frame.fused =>
              frame.stress_detected =
                  (frame.audio_stress_detected \/ frame.motion_stress_detected)
        /\ calls.resolver <= 1 /\ calls.maps <= 1
        /\ calls.resolver = 1 => (frame.fused /\ frame.stress_detected)
        /\ calls.maps = 1 => (calls.resolver = 1 /\ Truthy(frame.location_data))
        /\ pc = "m_prompt" =>
              /\ calls.resolver = 1 <=>
                    (frame.audio_stress_detected \/ frame.motion_stress_detected)
              /\ calls.maps = 1 <=>
                    /\ frame.audio_stress_detected \/ frame.motion_stress_detected
                    /\ Truthy(frame.location_data)

\* only the motion verdict is true: the resolver and the map opener ran
C29_Witness ==
    /\ prog = "mousekbd"
    /\ pc = "m_prompt"
    /\ ~frame.audio_stress_detected
    /\ frame.motion_stress_detected
    /\ calls = [resolver |-> 1, maps |-> 1]

====
